---- MODULE Spec2Model ----
(***************************************************************************)
(* A model of NextPVR::Socket (src/src/Socket.cpp): the Connection         *)
(* lifecycle (create / close / accept / connect / reconnect), the          *)
(* process-wide usage counter of the Windows build (win_usage_count), and  *)
(* the send / receive loops.                                               *)
(*                                                                         *)
(* The file is compiled for one of two targets (#if defined(TARGET_WINDOWS)*)
(* ... #elif defined TARGET_LINUX ...).  The variable target is fixed by   *)
(* Init and never changes; every operator that models code under an #if    *)
(* takes the branch of that target.                                        *)
(*                                                                         *)
(* Three specifications: Spec, the methods called one after another from   *)
(* one thread; SpecConc, create() and close() called from two threads,     *)
(* step by step; SpecIO, one send on one end of an established stream and  *)
(* one receive, step by step, on the other.                                *)
(***************************************************************************)
EXTENDS Integers, Sequences, FiniteSets, TLC

(***************************************************************************)
(* Bounds of the model.                                                    *)
(***************************************************************************)
\* descriptors the OS can hand out are 1..MaxFd; socket() and accept() fail
\* (EMFILE) when all of them are open
MaxFd == 3
\* the usage counter is kept at or below MaxCount by the guards
MaxCount == 2
\* buffers passed to send, sendto and receive hold at most MaxLen bytes
MaxLen == 2
\* the OS answers at most MaxTries calls of one send, sendto or receive loop
MaxTries == 2

(***************************************************************************)
(* Values of Socket.h and of the platform headers.                         *)
(***************************************************************************)
INVALID_SOCKET == -1
SOCKET_ERROR == -1

\* the Connection objects of the process
Conns == {"a", "b"}
Fds == 1..MaxFd
Targets == {"WINDOWS", "POSIX"}

\* sockaddr_in values: the zeroed structure, the wildcard, broadcast, a peer
AF_INET == "AF_INET"
INADDR_ANY == "0.0.0.0"
INADDR_BROADCAST == "255.255.255.255"
PeerAddr == "10.0.0.1"
Ports == {"3875"}
ZeroAddr == [family |-> "0", port |-> "0", addr |-> INADDR_ANY]

\* the bytes of the model: NUL and a letter
Bytes == {0, 65}

\* error codes as the target names them; EWOULDBLOCK is the code the loops test
EWOULDBLOCK == "EWOULDBLOCK"
ECONNRESET == "ECONNRESET"
NoError == "0"

VARIABLES
  target,           \* the build: "WINDOWS" or "POSIX"
  sd,               \* sd[c] = c._sd
  sockaddr,         \* sockaddr[c] = c._sockaddr
  win_usage_count,  \* Socket::win_usage_count (Windows build only)
  osOpen,           \* descriptors open in the OS
  osListening,      \* open descriptors on which listen() succeeded
  osConnected,      \* open descriptors that are connected (connect or accept)
  teardown,         \* the operation that ran last called WSACleanup
  poisoned,         \* Connections whose handle send marked invalid, and which
                    \* have held no valid handle since
  pc,               \* pc[c]: where the thread that owns Connection c stands
  reg,              \* reg[c]: the value of win_usage_count that thread loaded
  createFailed,     \* some create() of a thread has returned false
  wire,             \* the bytes the OS has taken from the sender and not yet
                    \* delivered to the receiver
  tx,               \* the sender's call of send: its argument and its result
  rx                \* the receiver's call of receive: its arguments, its
                    \* locals and where it stands

vars == <<target, sd, sockaddr, win_usage_count, osOpen, osListening, osConnected,
          teardown, poisoned, pc, reg, createFailed, wire, tx, rx>>
ioVars == <<wire, tx, rx>>

(***************************************************************************)
(* The world an operation runs in, as a record: the program's state, the   *)
(* OS's, and what the running operation has done so far (WSACleanup calls, *)
(* log lines written, OS calls issued).  errno and wsa (the value          *)
(* WSAGetLastError() returns) are part of it: the code reads either only   *)
(* right after an OS call of the same operation has failed, except for     *)
(* errno in the Windows build, which no Winsock call ever sets.            *)
(***************************************************************************)
World ==
  [sd |-> sd, addr |-> sockaddr, cnt |-> win_usage_count,
   errno |-> NoError, wsa |-> NoError, sent |-> <<>>,
   open |-> osOpen, listening |-> osListening, connected |-> osConnected,
   teardowns |-> 0, logs |-> 0, calls |-> {}]

\* kodi::Log: one line to the log sink
Log(w) == [w EXCEPT !.logs = @ + 1]

\* Socket::errormessage: one kodi::Log line on either target
errormessage(w) == Log(w)

\* the OS call named n was issued
Called(w, n) == [w EXCEPT !.calls = @ \cup {n}]

is_valid(w, c) == w.sd[c] # INVALID_SOCKET

\* the lowest descriptor not open, as socket() and accept() return it
FreeFds(w) == Fds \ w.open
NewFd(w) == CHOOSE f \in FreeFds(w) : \A g \in FreeFds(w) : f <= g

\* ::close / closesocket on descriptor f
OsClose(w, f) ==
  [Called(w, "close") EXCEPT !.open = @ \ {f}, !.listening = @ \ {f},
                             !.connected = @ \ {f}]

(***************************************************************************)
(* Socket::osInit.  wsa is the outcome of WSAStartup: "ok", "fail" (a      *)
(* nonzero return) or "version" (wVersion is not 2.2).                     *)
(***************************************************************************)
osInit(w, wsa) ==
  IF target = "WINDOWS"
    THEN [w |-> [Called(w, "WSAStartup") EXCEPT !.cnt = @ + 1], ret |-> (wsa = "ok")]
    ELSE [w |-> w, ret |-> TRUE]

(***************************************************************************)
(* Socket::osCleanup.                                                      *)
(***************************************************************************)
osCleanup(w) ==
  IF target = "WINDOWS"
    THEN LET n == w.cnt - 1
         IN  IF n = 0
               THEN [Called(w, "WSACleanup") EXCEPT !.cnt = n, !.teardowns = @ + 1]
               ELSE [w EXCEPT !.cnt = n]
    ELSE w

\* close() that leaves _sd as it is
close_KeepsHandle(w, c) ==
  IF is_valid(w, c)
    THEN LET w1 == IF w.sd[c] # SOCKET_ERROR THEN OsClose(w, w.sd[c]) ELSE w
         IN  [w |-> osCleanup(w1), ret |-> TRUE]
    ELSE [w |-> w, ret |-> FALSE]

\* close() that forgets osCleanup()
close_NoCleanup(w, c) ==
  IF is_valid(w, c)
    THEN [w |-> [OsClose(w, w.sd[c]) EXCEPT !.sd[c] = INVALID_SOCKET], ret |-> TRUE]
    ELSE [w |-> w, ret |-> FALSE]

(***************************************************************************)
(* Socket::close.                                                          *)
(***************************************************************************)
close(w, c) ==
  IF is_valid(w, c)
    THEN LET w1 == IF w.sd[c] # SOCKET_ERROR THEN OsClose(w, w.sd[c]) ELSE w
             w2 == [w1 EXCEPT !.sd[c] = INVALID_SOCKET]
         IN  [w |-> osCleanup(w2), ret |-> TRUE]
    ELSE [w |-> w, ret |-> FALSE]

\* create() that clears _sockaddr as the constructors do
create_ZeroesAddr(w, c, wsa, sockOk) ==
  LET w1 == IF is_valid(w, c) THEN close(w, c).w ELSE w
      i  == osInit([w1 EXCEPT !.addr[c] = ZeroAddr], wsa)
  IN  IF ~i.ret
        THEN [w |-> i.w, ret |-> FALSE]
        ELSE LET fd == IF sockOk /\ FreeFds(i.w) # {} THEN NewFd(i.w) ELSE INVALID_SOCKET
                 w2 == [Called(i.w, "socket") EXCEPT
                          !.sd[c] = fd,
                          !.open = IF fd # INVALID_SOCKET THEN @ \cup {fd} ELSE @]
             IN  IF fd = INVALID_SOCKET
                   THEN [w |-> errormessage(w2), ret |-> FALSE]
                   ELSE [w |-> w2, ret |-> TRUE]

(***************************************************************************)
(* Socket::create.  sockOk: whether ::socket succeeds when a descriptor is *)
(* free.                                                                   *)
(***************************************************************************)
create(w, c, wsa, sockOk) ==
  LET w1 == IF is_valid(w, c) THEN close(w, c).w ELSE w
      i  == osInit(w1, wsa)
  IN  IF ~i.ret
        THEN [w |-> i.w, ret |-> FALSE]
        ELSE LET fd == IF sockOk /\ FreeFds(i.w) # {} THEN NewFd(i.w) ELSE INVALID_SOCKET
                 w2 == [Called(i.w, "socket") EXCEPT
                          !.sd[c] = fd,
                          !.open = IF fd # INVALID_SOCKET THEN @ \cup {fd} ELSE @]
             IN  IF fd = INVALID_SOCKET
                   THEN [w |-> errormessage(w2), ret |-> FALSE]
                   ELSE [w |-> w2, ret |-> TRUE]

(***************************************************************************)
(* The OS reports a failed call: errno on POSIX; on Windows Winsock sets   *)
(* the value WSAGetLastError() returns and leaves errno alone.             *)
(***************************************************************************)
SetOsError(w, e) ==
  IF target = "WINDOWS" THEN [w EXCEPT !.wsa = e] ELSE [w EXCEPT !.errno = e]

\* Socket::getLastError
getLastError(w) == IF target = "WINDOWS" THEN w.wsa ELSE w.errno

\* a result of an OS transfer call: status >= 0 with the bytes moved, or
\* SOCKET_ERROR with the error code
OsOk(bytes) == [status |-> Len(bytes), err |-> NoError, bytes |-> bytes]
OsErr(e) == [status |-> SOCKET_ERROR, err |-> e, bytes |-> <<>>]

\* the first n elements of s
Take(s, n) == SubSeq(s, 1, n)

(***************************************************************************)
(* Socket::send(const char*, unsigned int), lines 244-258: the do-while    *)
(* around ::send and what follows it.  results are the OS's answers to the *)
(* successive ::send calls; done is FALSE when they run out while the loop *)
(* still retries.                                                          *)
(***************************************************************************)
SendRetries(w, status) == status = SOCKET_ERROR /\ w.errno = EWOULDBLOCK

RECURSIVE sendLoop(_, _, _)
sendLoop(w, c, results) ==
  LET r  == Head(results)
      w1 == Called(w, "send")
      w2 == IF r.status = SOCKET_ERROR
              THEN SetOsError(w1, r.err)
              ELSE [w1 EXCEPT !.sent = @ \o r.bytes]
  IN  IF SendRetries(w2, r.status)
        THEN IF Tail(results) = <<>>
               THEN [w |-> w2, ret |-> r.status, done |-> FALSE]
               ELSE sendLoop(w2, c, Tail(results))
        ELSE IF r.status = SOCKET_ERROR
               THEN [w |-> [Log(errormessage(w2)) EXCEPT !.sd[c] = INVALID_SOCKET],
                     ret |-> r.status, done |-> TRUE]
               ELSE [w |-> w2, ret |-> r.status, done |-> TRUE]

\* send() that reports a failed poll and leaves the handle as it is
send_PollKeepsHandle(w, c, pollOk, results) ==
  IF ~is_valid(w, c)
    THEN [w |-> w, ret |-> 0, done |-> TRUE]
    ELSE IF ~pollOk
           THEN [w |-> Log(SetOsError(Called(w, "select"), ECONNRESET)),
                 ret |-> 0, done |-> TRUE]
           ELSE sendLoop(Called(w, "select"), c, results)

(***************************************************************************)
(* Socket::send(const char*, unsigned int).  pollOk: select returned >= 0. *)
(***************************************************************************)
send(w, c, pollOk, results) ==
  IF ~is_valid(w, c)
    THEN [w |-> w, ret |-> 0, done |-> TRUE]
    ELSE LET w1 == Called(w, "select")
         IN  IF ~pollOk
               THEN [w |-> [Log(SetOsError(w1, ECONNRESET)) EXCEPT !.sd[c] = INVALID_SOCKET],
                     ret |-> 0, done |-> TRUE]
               ELSE sendLoop(w1, c, results)

(***************************************************************************)
(* Socket::send(const std::string&): the do-while around the send above.   *)
(* Each round of it consumes its own poll result and ::send answers.       *)
(***************************************************************************)
RECURSIVE sendString(_, _, _)
sendString(w, c, rounds) ==
  LET r == send(w, c, Head(rounds).pollOk, Head(rounds).results)
  IN  IF ~r.done
        THEN r
        ELSE IF SendRetries(r.w, r.ret)
               THEN IF Tail(rounds) = <<>>
                      THEN [r EXCEPT !.done = FALSE]
                      ELSE sendString(r.w, c, Tail(rounds))
               ELSE r

sendStringEntry(w, c, rounds) ==
  IF ~is_valid(w, c)
    THEN [w |-> w, ret |-> 0, done |-> TRUE]
    ELSE sendString(w, c, rounds)

(***************************************************************************)
(* Socket::sendto.  Every round passes the same data pointer and the same  *)
(* size to ::sendto; results are the OS's answers.                         *)
(***************************************************************************)
RECURSIVE sendtoLoop(_, _, _, _, _, _)
sendtoLoop(w, c, size, sendcompletebuffer, sentbytes, results) ==
  LET r  == Head(results)
      w1 == Called(w, "sendto")
      w2 == IF r.status = SOCKET_ERROR
              THEN SetOsError(w1, r.err)
              ELSE [w1 EXCEPT !.sent = @ \o r.bytes]
      i  == r.status
  IN  IF i <= 0
        THEN [w |-> osCleanup(errormessage(w2)), ret |-> i, done |-> TRUE]
        ELSE IF (sentbytes + i < size) /\ sendcompletebuffer
               THEN IF Tail(results) = <<>>
                      THEN [w |-> w2, ret |-> i, done |-> FALSE]
                      ELSE sendtoLoop(w2, c, size, sendcompletebuffer, sentbytes + i,
                                      Tail(results))
               ELSE [w |-> w2, ret |-> i, done |-> TRUE]

sendto(w, c, size, sendcompletebuffer, results) ==
  sendtoLoop(w, c, size, sendcompletebuffer, 0, results)

(***************************************************************************)
(* Socket::BroadcastSendTo; sendto's third parameter takes its default.    *)
(***************************************************************************)
BroadcastSendTo(w, c, port, len, results) ==
  LET w1 == [w EXCEPT !.addr[c] = [family |-> AF_INET, port |-> port,
                                   addr |-> INADDR_BROADCAST]]
  IN  sendto(w1, c, len, FALSE, results)

(***************************************************************************)
(* Socket::recvfrom: ::recvfrom on the handle, whatever it is.  osOk:      *)
(* whether a datagram is there (it can be when the descriptor is open);    *)
(* the OS then stores the sender's address through from.                   *)
(***************************************************************************)
recvfrom(w, c, buffersize, osOk) ==
  LET w1 == Called(w, "recvfrom")
  IN  IF osOk /\ w.sd[c] \in w.open
        THEN [w |-> w1, ret |-> buffersize,
              from |-> [family |-> AF_INET, port |-> "3875", addr |-> PeerAddr]]
        ELSE [w |-> SetOsError(w1, ECONNRESET), ret |-> SOCKET_ERROR, from |-> ZeroAddr]

(***************************************************************************)
(* Socket::BroadcastReceiveFrom: recvfrom with from pointing at _sockaddr. *)
(***************************************************************************)
BroadcastReceiveFrom(w, c, payloadLength, osOk) ==
  LET r == recvfrom(w, c, payloadLength, osOk)
  IN  [w |-> IF r.ret # SOCKET_ERROR THEN [r.w EXCEPT !.addr[c] = r.from] ELSE r.w,
       ret |-> r.ret]

(***************************************************************************)
(* Socket::receive(char*, unsigned int, unsigned int): one round of the    *)
(* while loop, lines 335-360, on the OS's answer r to ::recv.  rs holds    *)
(* the locals: receivedsize, status and the caller's buffer data.          *)
(* pc: "loop" (back to the loop test), "return" (ret is the result).       *)
(***************************************************************************)
\* a round without the break of lines 359-360
receiveRound_NoBreak(w, rs, minpacketsize, r) ==
  LET w1 == Called(w, "recv")
  IN  IF r.status = SOCKET_ERROR
        THEN LET w2 == SetOsError(w1, r.err)
                 lasterror == getLastError(w2)
             IN  IF lasterror # EWOULDBLOCK
                   THEN [w |-> errormessage(w2), rs |-> [rs EXCEPT !.status = r.status],
                         pc |-> "return", ret |-> r.status]
                   ELSE [w |-> Log(w2), rs |-> [rs EXCEPT !.status = r.status],
                         pc |-> "loop", ret |-> 0]
        ELSE LET n   == rs.receivedsize + r.status
                 rs1 == [receivedsize |-> n, status |-> r.status,
                         data |-> Take(rs.data, rs.receivedsize) \o r.bytes
                                  \o SubSeq(rs.data, n + 1, Len(rs.data))]
             IN  [w |-> w1, rs |-> rs1, pc |-> "loop", ret |-> 0]

receiveRound(w, rs, minpacketsize, r) ==
  LET w1 == Called(w, "recv")
  IN  IF r.status = SOCKET_ERROR
        THEN LET w2 == SetOsError(w1, r.err)
                 lasterror == getLastError(w2)
             IN  IF lasterror # EWOULDBLOCK
                   THEN [w |-> errormessage(w2), rs |-> [rs EXCEPT !.status = r.status],
                         pc |-> "return", ret |-> r.status]
                   ELSE [w |-> Log(w2), rs |-> [rs EXCEPT !.status = r.status],
                         pc |-> "loop", ret |-> 0]
        ELSE LET n   == rs.receivedsize + r.status
                 rs1 == [receivedsize |-> n, status |-> r.status,
                         data |-> Take(rs.data, rs.receivedsize) \o r.bytes
                                  \o SubSeq(rs.data, n + 1, Len(rs.data))]
             IN  IF n >= minpacketsize
                   THEN [w |-> w1, rs |-> rs1, pc |-> "return", ret |-> n]
                   ELSE [w |-> w1, rs |-> rs1, pc |-> "loop", ret |-> 0]

\* the loop test of line 333
receiveContinues(rs, buffersize, minpacketsize) ==
  (rs.receivedsize <= minpacketsize) /\ (rs.receivedsize < buffersize)

\* the locals at entry; data is the caller's buffer of buffersize bytes
receiveEntry(data) == [receivedsize |-> 0, status |-> 0, data |-> data]

\* ::recv that is always asked for the whole buffer
recvSize_Whole(rs, buffersize) == buffersize

\* the third argument of ::recv, line 335
recvSize(rs, buffersize) == buffersize - rs.receivedsize

RECURSIVE receiveLoop(_, _, _, _, _)
receiveLoop(w, rs, buffersize, minpacketsize, results) ==
  IF ~receiveContinues(rs, buffersize, minpacketsize)
    THEN [w |-> w, rs |-> rs, ret |-> rs.receivedsize, done |-> TRUE]
    ELSE IF results = <<>>
           THEN [w |-> w, rs |-> rs, ret |-> 0, done |-> FALSE]
           ELSE LET x == receiveRound(w, rs, minpacketsize, Head(results))
                IN  IF x.pc = "return"
                      THEN [w |-> x.w, rs |-> x.rs, ret |-> x.ret, done |-> TRUE]
                      ELSE receiveLoop(x.w, x.rs, buffersize, minpacketsize, Tail(results))

(***************************************************************************)
(* Socket::receive(char*, unsigned int, unsigned int).                     *)
(***************************************************************************)
receive(w, c, data, buffersize, minpacketsize, results) ==
  IF ~is_valid(w, c)
    THEN [w |-> w, rs |-> receiveEntry(data), ret |-> 0, done |-> TRUE]
    ELSE receiveLoop(w, receiveEntry(data), buffersize, minpacketsize, results)

(***************************************************************************)
(* The std::string overloads of receive, lines 284-320.  Each passes a     *)
(* zeroed buffer of one byte more than the capacity to the receive above   *)
(* and assigns the buffer to the string as a C string: the bytes before    *)
(* the first NUL.                                                          *)
(***************************************************************************)
MAXRECV == 1500

Zeros(n) == [i \in 1..n |-> 0]

\* data = buf: std::string::operator=(const char*)
CString(buf) ==
  LET nul == {i \in 1..Len(buf) : buf[i] = 0}
  IN  IF nul = {} THEN buf
                  ELSE Take(buf, (CHOOSE i \in nul : \A j \in nul : i <= j) - 1)

\* receive(std::string&, unsigned int): the arguments of line 297
receiveStringArgs(minpacketsize) ==
  [data |-> Zeros(minpacketsize + 1), buffersize |-> minpacketsize,
   minpacketsize |-> minpacketsize]

\* receive(std::string&): the arguments of line 316
receiveAllArgs == [data |-> Zeros(MAXRECV + 1), buffersize |-> MAXRECV, minpacketsize |-> 0]

\* what the caller's std::string or buffer holds when receive has returned
receiveOut(kind, rs) == IF kind = "raw" THEN rs.data ELSE CString(rs.data)

(***************************************************************************)
(* The calls of one round trip (SpecIO): tx is the sender's call of send,  *)
(* rx the receiver's call of receive.  Besides the arguments and the       *)
(* locals they record what the OS answered: in tx the status returned, the *)
(* bytes the OS took, whether ::send was reached and the error code last   *)
(* reported; in rx the size ::recv is asked for, the number of answers     *)
(* that were would-block, empty, or not an error, and the last answer.     *)
(***************************************************************************)
TxIdle(data) ==
  [pc |-> "idle", kind |-> "raw", data |-> data, ret |-> 0, accepted |-> <<>>,
   polled |-> FALSE, err |-> NoError]

RxIdle ==
  [pc |-> "idle", kind |-> "raw", cap |-> 0, min |-> 0, rs |-> receiveEntry(<<>>),
   asked |-> 0, blocks |-> 0, zeros |-> 0, reads |-> 0, last |-> "none",
   ret |-> 0, out |-> <<>>]

(***************************************************************************)
(* Host names, as the sequence of their characters.  The resolver knows    *)
(* one name; inet_addr parses the "a.b" form of the peer's address.        *)
(***************************************************************************)
Letters == {"p", "v", "r", "x"}
HostPvr == <<"p", "v", "r">>
HostUnknown == <<"x">>
HostNumeric == <<"1", "0", ".", "1">>
Hosts == {HostPvr, HostUnknown, HostNumeric}

isalpha(ch) == ch \in Letters

\* gethostbyname: the first address of the name, or "fail" (a null hostent)
gethostbyname(host, dnsUp) == IF dnsUp /\ host = HostPvr THEN PeerAddr ELSE "fail"

\* inet_addr: INADDR_NONE, which is the broadcast address, on a malformed string
inet_addr(host) == IF host = HostNumeric THEN PeerAddr ELSE INADDR_BROADCAST

(***************************************************************************)
(* Socket::setHostname.                                                    *)
(***************************************************************************)
setHostname(w, c, host, dnsUp) ==
  IF isalpha(host[1])
    THEN LET he == gethostbyname(host, dnsUp)
         IN  IF he = "fail"
               THEN [w |-> errormessage(SetOsError(Called(w, "gethostbyname"), ECONNRESET)),
                     ret |-> FALSE]
               ELSE [w |-> [Called(w, "gethostbyname") EXCEPT !.addr[c].addr = he],
                     ret |-> TRUE]
    ELSE [w |-> [w EXCEPT !.addr[c].addr = inet_addr(host)], ret |-> TRUE]

(***************************************************************************)
(* Socket::bind.  osOk: whether ::bind succeeds.                           *)
(***************************************************************************)
bind(w, c, port, osOk) ==
  IF ~is_valid(w, c)
    THEN [w |-> w, ret |-> FALSE]
    ELSE LET w1 == [Called(w, "bind") EXCEPT
                      !.addr[c] = [family |-> AF_INET, port |-> port, addr |-> INADDR_ANY]]
         IN  IF ~osOk
               THEN [w |-> errormessage(SetOsError(w1, ECONNRESET)), ret |-> FALSE]
               ELSE [w |-> w1, ret |-> TRUE]

(***************************************************************************)
(* Socket::listen.                                                         *)
(***************************************************************************)
listen(w, c, osOk) ==
  IF ~is_valid(w, c)
    THEN [w |-> w, ret |-> FALSE]
    ELSE LET w1 == Called(w, "listen")
         IN  IF ~osOk
               THEN [w |-> errormessage(SetOsError(w1, ECONNRESET)), ret |-> FALSE]
               ELSE [w |-> [w1 EXCEPT !.listening = @ \cup {w.sd[c]}], ret |-> TRUE]

(***************************************************************************)
(* Socket::accept.  The test new_socket._sd <= 0 is on an unsigned SOCKET  *)
(* in the Windows build, where only 0 passes it.  osOk: whether ::accept   *)
(* succeeds (it can when the descriptor listens and one is free); it then  *)
(* stores the peer's address through the pointer to _sockaddr.             *)
(***************************************************************************)
AcceptFailed(fd) == IF target = "WINDOWS" THEN fd = 0 ELSE fd <= 0

accept(w, c, new_socket, osOk) ==
  IF ~is_valid(w, c)
    THEN [w |-> w, ret |-> FALSE]
    ELSE LET ok == osOk /\ w.sd[c] \in w.listening /\ FreeFds(w) # {}
             fd == IF ok THEN NewFd(w) ELSE INVALID_SOCKET
             w1 == Called(w, "accept")
             w2 == IF ok
                     THEN [w1 EXCEPT !.open = @ \cup {fd}, !.connected = @ \cup {fd},
                                     !.addr[c] = [family |-> AF_INET, port |-> "3875",
                                                  addr |-> PeerAddr]]
                     ELSE SetOsError(w1, ECONNRESET)
             w3 == [w2 EXCEPT !.sd[new_socket] = fd]
         IN  IF AcceptFailed(fd)
               THEN [w |-> errormessage(w3), ret |-> FALSE]
               ELSE [w |-> w3, ret |-> TRUE]

(***************************************************************************)
(* ::connect on descriptor f with the address a: it can succeed when f is  *)
(* open, neither listening nor connected, and a names the peer.            *)
(***************************************************************************)
OsConnect(w, f, a, osOk) ==
  LET ok == /\ osOk
            /\ f \in w.open \ (w.listening \cup w.connected)
            /\ a.family = AF_INET /\ a.addr = PeerAddr /\ a.port \in Ports
      w1 == Called(w, "connect")
  IN  IF ok
        THEN [w |-> [w1 EXCEPT !.connected = @ \cup {f}], status |-> 0]
        ELSE [w |-> SetOsError(w1, ECONNRESET), status |-> SOCKET_ERROR]

(***************************************************************************)
(* Socket::connect.                                                        *)
(***************************************************************************)
connect(w, c, host, port, dnsUp, osOk) ==
  IF ~is_valid(w, c)
    THEN [w |-> w, ret |-> FALSE]
    ELSE LET w1 == [w EXCEPT !.addr[c].family = AF_INET, !.addr[c].port = port]
             h  == setHostname(w1, c, host, dnsUp)
         IN  IF ~h.ret
               THEN [w |-> Log(h.w), ret |-> FALSE]
               ELSE LET k == OsConnect(h.w, h.w.sd[c], h.w.addr[c], osOk)
                    IN  IF k.status = SOCKET_ERROR
                          THEN [w |-> errormessage(Log(k.w)), ret |-> FALSE]
                          ELSE [w |-> k.w, ret |-> TRUE]

\* reconnect() that connects again whatever the handle is
reconnect_Always(w, c, wsa, sockOk, osOk) ==
  LET cr == create(w, c, wsa, sockOk)
  IN  IF ~cr.ret
        THEN [w |-> cr.w, ret |-> FALSE]
        ELSE LET k == OsConnect(cr.w, cr.w.sd[c], cr.w.addr[c], osOk)
             IN  IF k.status = SOCKET_ERROR
                   THEN [w |-> errormessage(k.w), ret |-> FALSE]
                   ELSE [w |-> k.w, ret |-> TRUE]

(***************************************************************************)
(* Socket::reconnect.                                                      *)
(***************************************************************************)
reconnect(w, c, wsa, sockOk, osOk) ==
  IF w.sd[c] # INVALID_SOCKET
    THEN [w |-> w, ret |-> TRUE]
    ELSE LET cr == create(w, c, wsa, sockOk)
         IN  IF ~cr.ret
               THEN [w |-> cr.w, ret |-> FALSE]
               ELSE LET k == OsConnect(cr.w, cr.w.sd[c], cr.w.addr[c], osOk)
                    IN  IF k.status = SOCKET_ERROR
                          THEN [w |-> errormessage(k.w), ret |-> FALSE]
                          ELSE [w |-> k.w, ret |-> TRUE]

(***************************************************************************)
(* Running an operation: the variables take the world it leaves.  The      *)
(* usage counter is kept within -1..MaxCount.  Of a descriptor that no     *)
(* Connection holds any more (the handle was marked invalid or overwritten *)
(* without ::close) no operation can observe more than that it is open, so *)
(* only that is kept.                                                      *)
(***************************************************************************)
Held(w) == {w.sd[c] : c \in Conns} \ {INVALID_SOCKET}

Run(name, c, r) ==
  /\ r.w.cnt \in (0 - 1)..MaxCount
  /\ sd' = r.w.sd
  /\ sockaddr' = r.w.addr
  /\ win_usage_count' = r.w.cnt
  /\ osOpen' = r.w.open
  /\ osListening' = r.w.listening \cap Held(r.w)
  /\ osConnected' = r.w.connected \cap Held(r.w)
  /\ teardown' = (r.w.teardowns > 0)
  /\ poisoned' = {p \in Conns :
                    /\ ~is_valid(r.w, p)
                    /\ \/ p \in poisoned
                       \/ name = "send" /\ p = c /\ is_valid(World, p)}
  /\ UNCHANGED <<target, pc, reg, createFailed, ioVars>>

(***************************************************************************)
(* What the callers and the OS can supply.                                 *)
(***************************************************************************)
WsaOutcomes == {"ok", "fail", "version"}

\* the buffers a caller passes
Datas == UNION {[1..n -> Bytes] : n \in 0..MaxLen}

\* one answer, or one would-block and then an answer
WouldBlockThen(S) == {<<x>> : x \in S} \cup {<<OsErr(EWOULDBLOCK), x>> : x \in S}
\* up to MaxTries answers, all but the last of them would-block: a loop that
\* retries on would-block alone asks for no others
Retried(S) ==
  {[i \in 1..k |-> IF i < k THEN OsErr(EWOULDBLOCK) ELSE x] : k \in 1..MaxTries, x \in S}

\* answers of ::send and ::sendto to a call passing data on descriptor f:
\* a nonempty prefix is taken (all of an empty buffer), or the call fails
Prefixes(data) == {Take(data, k) : k \in (IF data = <<>> THEN {0} ELSE 1..Len(data))}
SendResults(f, data) ==
  IF f \in osConnected
    THEN {OsOk(b) : b \in Prefixes(data)} \cup {OsErr(EWOULDBLOCK), OsErr(ECONNRESET)}
    ELSE {OsErr(ECONNRESET)}
SendtoResults(f, data) ==
  IF f \in osOpen
    THEN {OsOk(b) : b \in Prefixes(data)} \cup {OsErr(ECONNRESET)}
    ELSE {OsErr(ECONNRESET)}

\* answers of ::recv asked for at most n bytes from a remote peer: some bytes,
\* none (the peer has shut down), or a failure
Filler(k) == [i \in 1..k |-> 65]
RecvResults(f, n) ==
  IF f \in osConnected
    THEN {OsOk(Filler(k)) : k \in 0..n} \cup {OsErr(EWOULDBLOCK), OsErr(ECONNRESET)}
    ELSE {OsErr(ECONNRESET)}

(***************************************************************************)
(* The results each operation can have in the current state, over the      *)
(* caller's arguments and the OS's answers.                                *)
(***************************************************************************)
CreateResults(c) ==
  {create(World, c, wsa, sockOk) : wsa \in WsaOutcomes, sockOk \in BOOLEAN}

CloseResults(c) == {close(World, c)}

BindResults(c) == {bind(World, c, port, osOk) : port \in Ports, osOk \in BOOLEAN}

ListenResults(c) == {listen(World, c, osOk) : osOk \in BOOLEAN}

AcceptInto(c, n) == {accept(World, c, n, osOk) : osOk \in BOOLEAN}
AcceptResults(c) == UNION {AcceptInto(c, n) : n \in Conns \ {c}}

ConnectResults(c) ==
  UNION {{connect(World, c, host, port, dnsUp, osOk) : host \in Hosts, port \in Ports} :
           dnsUp \in BOOLEAN, osOk \in BOOLEAN}

ReconnectResults(c) ==
  UNION {{reconnect(World, c, wsa, sockOk, osOk) : wsa \in WsaOutcomes} :
           sockOk \in BOOLEAN, osOk \in BOOLEAN}

Finished(S) == {r \in S : r.done}

SendResultsOf(c, data) ==
  Finished(UNION {{send(World, c, pollOk, results) :
                     results \in WouldBlockThen(SendResults(sd[c], data))} :
                   pollOk \in BOOLEAN})

SendtoResultsOf(c, data) ==
  Finished(UNION {{sendto(World, c, Len(data), complete, results) :
                     results \in WouldBlockThen(SendtoResults(sd[c], data))} :
                   complete \in BOOLEAN})

BroadcastResultsOf(c, data) ==
  Finished(UNION {{BroadcastSendTo(World, c, port, Len(data), results) :
                     results \in WouldBlockThen(SendtoResults(sd[c], data))} :
                   port \in Ports})

\* in the lifecycle the content of a buffer is of no account: one byte
LifeData == <<65>>

RecvfromResults(c) == {recvfrom(World, c, Len(LifeData), osOk) : osOk \in BOOLEAN}

BroadcastReceiveResults(c) ==
  {BroadcastReceiveFrom(World, c, Len(LifeData), osOk) : osOk \in BOOLEAN}

ReceiveResultsOf(c, buffersize, minpacketsize) ==
  Finished({receive(World, c, Filler(buffersize), buffersize, minpacketsize, results) :
              results \in WouldBlockThen(RecvResults(sd[c], buffersize))})

Create(c) == \E r \in CreateResults(c) : Run("create", c, r)

Close(c) == \E r \in CloseResults(c) : Run("close", c, r)

Bind(c) == \E r \in BindResults(c) : Run("bind", c, r)

Listen(c) == \E r \in ListenResults(c) : Run("listen", c, r)

Accept(c) == \E r \in AcceptResults(c) : Run("accept", c, r)

Connect(c) == \E r \in ConnectResults(c) : Run("connect", c, r)

Reconnect(c) == \E r \in ReconnectResults(c) : Run("reconnect", c, r)

Send(c) == \E r \in SendResultsOf(c, LifeData) : Run("send", c, r)

SendTo(c) == \E r \in SendtoResultsOf(c, LifeData) : Run("sendto", c, r)

BroadcastSend(c) == \E r \in BroadcastResultsOf(c, LifeData) : Run("BroadcastSendTo", c, r)

Receive(c) == \E r \in ReceiveResultsOf(c, Len(LifeData), Len(LifeData)) : Run("receive", c, r)

BroadcastReceive(c) == \E r \in BroadcastReceiveResults(c) : Run("BroadcastReceiveFrom", c, r)

Init ==
  /\ target \in Targets
  /\ sd = [c \in Conns |-> INVALID_SOCKET]
  /\ sockaddr = [c \in Conns |-> ZeroAddr]
  /\ win_usage_count = 0
  /\ osOpen = {}
  /\ osListening = {}
  /\ osConnected = {}
  /\ teardown = FALSE
  /\ poisoned = {}
  /\ pc = [c \in Conns |-> <<"idle">>]
  /\ reg = [c \in Conns |-> 0]
  /\ createFailed = FALSE
  /\ wire = <<>>
  /\ tx = TxIdle(<<>>)
  /\ rx = RxIdle

Next ==
  \E c \in Conns :
    \/ Create(c)
    \/ Close(c)
    \/ Bind(c)
    \/ Listen(c)
    \/ Accept(c)
    \/ Connect(c)
    \/ Reconnect(c)
    \/ Send(c)
    \/ SendTo(c)
    \/ BroadcastSend(c)
    \/ Receive(c)
    \/ BroadcastReceive(c)

Spec == Init /\ [][Next]_vars

(***************************************************************************)
(* One round trip.  Connection "a" (the sender, descriptor 1) and          *)
(* Connection "b" (the receiver, descriptor 2) are the two ends of one     *)
(* established stream: what ::send takes on descriptor 1 is appended to    *)
(* wire, and ::recv on descriptor 2 delivers from the front of wire.       *)
(* InitIO is the state that create() and connect() on both leave.  The     *)
(* sender calls send once, on a buffer fixed at the start; the receiver    *)
(* calls receive once, and the call takes its steps one at a time, so that *)
(* bytes arrive while it loops.   A descriptor answers would-block when it  *)
(* has been set non-blocking (set_non_blocking, lines 453-469, 595-617).   *)
(***************************************************************************)
Sender == "a"
Receiver == "b"

InitIO ==
  /\ target \in Targets
  /\ sd = [c \in Conns |-> IF c = Sender THEN 1 ELSE 2]
  /\ sockaddr = [c \in Conns |-> [family |-> AF_INET, port |-> "3875", addr |-> PeerAddr]]
  /\ win_usage_count = IF target = "WINDOWS" THEN 2 ELSE 0
  /\ osOpen = {1, 2}
  /\ osListening = {}
  /\ osConnected = {1, 2}
  /\ teardown = FALSE
  /\ poisoned = {}
  /\ pc = [c \in Conns |-> <<"idle">>]
  /\ reg = [c \in Conns |-> 0]
  /\ createFailed = FALSE
  /\ wire = <<>>
  /\ \E data \in Datas : tx = TxIdle(data)
  /\ rx = RxIdle

\* the rounds of send(const std::string&): the poll result and the answers of
\* ::send in the first round, and those of a second round where the loop of
\* lines 203-210 asks for one
StringRounds ==
  LET S == SendResults(sd[Sender], tx.data)
      First == {[pollOk |-> p, results |-> rs] : p \in BOOLEAN, rs \in Retried(S)}
      Again == {[pollOk |-> TRUE, results |-> <<x>>] : x \in S}
      Asks(x) == LET r == send(World, Sender, x.pollOk, x.results)
                 IN  r.done /\ SendRetries(r.w, r.ret)
  IN  {<<x>> : x \in First} \cup {<<x, y>> : x \in {f \in First : Asks(f)}, y \in Again}

SendRawResults ==
  Finished(UNION {{send(World, Sender, pollOk, results) :
                     results \in Retried(SendResults(sd[Sender], tx.data))} :
                   pollOk \in BOOLEAN})

SendStringResults ==
  Finished({sendStringEntry(World, Sender, rounds) : rounds \in StringRounds})

\* the sender's call returns with the result r
Sent(kind, r) ==
  /\ tx.pc = "idle"
  /\ tx' = [tx EXCEPT !.pc = "done", !.kind = kind, !.ret = r.ret,
                      !.accepted = r.w.sent, !.polled = ("send" \in r.w.calls),
                      !.err = getLastError(r.w)]
  /\ wire' = wire \o r.w.sent
  /\ sd' = r.w.sd
  /\ osConnected' = r.w.connected \cap Held(r.w)
  /\ poisoned' = {p \in Conns : ~is_valid(r.w, p) /\ (p \in poisoned \/ is_valid(World, p))}
  /\ UNCHANGED <<target, sockaddr, win_usage_count, osOpen, osListening, teardown,
                 pc, reg, createFailed, rx>>

\* send(const char*, unsigned int) on the sender
IoSend == \E r \in SendRawResults : Sent("raw", r)

\* send(const std::string&) on the sender
IoSendString == \E r \in SendStringResults : Sent("string", r)

\* close() on the sender, once its send has returned
IoClose ==
  /\ tx.pc = "done"
  /\ is_valid(World, Sender)
  /\ LET r == close(World, Sender)
     IN  /\ sd' = r.w.sd
         /\ win_usage_count' = r.w.cnt
         /\ osOpen' = r.w.open
         /\ osConnected' = r.w.connected
         /\ teardown' = (r.w.teardowns > 0)
  /\ UNCHANGED <<target, sockaddr, osListening, poisoned, pc, reg, createFailed, ioVars>>

\* the receiver enters receive(char*, unsigned int, unsigned int), lines 325-331
ReceiveEnter(kind, args) ==
  /\ rx' = IF is_valid(World, Receiver)
             THEN [RxIdle EXCEPT !.pc = "test", !.kind = kind, !.cap = args.buffersize,
                                 !.min = args.minpacketsize,
                                 !.rs = receiveEntry(args.data)]
             ELSE [RxIdle EXCEPT !.pc = "done", !.kind = kind, !.cap = args.buffersize,
                                 !.min = args.minpacketsize,
                                 !.rs = receiveEntry(args.data),
                                 !.out = IF kind = "raw" THEN args.data ELSE <<>>]
  /\ UNCHANGED <<target, sd, sockaddr, win_usage_count, osOpen, osListening,
                 osConnected, teardown, poisoned, pc, reg, createFailed, wire, tx>>

\* receive(char*, unsigned int, unsigned int) on a buffer of buffersize bytes
ReceiveCall ==
  /\ rx.pc = "idle"
  /\ \E buffersize \in 0..MaxLen, minpacketsize \in 0..MaxLen :
       ReceiveEnter("raw", [data |-> Filler(buffersize), buffersize |-> buffersize,
                            minpacketsize |-> minpacketsize])

\* receive(std::string&, unsigned int)
ReceiveStringCall ==
  /\ rx.pc = "idle"
  /\ \E minpacketsize \in 0..MaxLen :
       ReceiveEnter("string", receiveStringArgs(minpacketsize))

\* receive(std::string&)
ReceiveAllCall ==
  /\ rx.pc = "idle"
  /\ ReceiveEnter("all", receiveAllArgs)

\* the loop test, line 333; past the loop receive returns, line 363
ReceiveTest ==
  /\ rx.pc = "test"
  /\ rx' = IF receiveContinues(rx.rs, rx.cap, rx.min)
             THEN [rx EXCEPT !.pc = "recv", !.asked = recvSize(rx.rs, rx.cap)]
             ELSE [rx EXCEPT !.pc = "done", !.ret = rx.rs.receivedsize,
                             !.out = receiveOut(rx.kind, rx.rs)]
  /\ UNCHANGED <<target, sd, sockaddr, win_usage_count, osOpen, osListening,
                 osConnected, teardown, poisoned, pc, reg, createFailed, wire, tx>>

\* the answers of ::recv on the receiver's descriptor when asked for n bytes:
\* some of the bytes that have arrived; with none arrived, would-block, or no
\* bytes once the sender's descriptor is closed; or a failure
RecvAnswers(n) ==
  {OsOk(Take(wire, k)) : k \in 1..(IF n < Len(wire) THEN n ELSE Len(wire))}
    \cup (IF wire # <<>> THEN {}
          ELSE IF 1 \in osOpen THEN {OsErr(EWOULDBLOCK)} ELSE {OsOk(<<>>)})
    \cup {OsErr(ECONNRESET)}

\* one round of the loop, lines 335-360, back to the loop test or out of
\* receive (lines 354, 363), and then of the string overload around it
ReceiveRecv ==
  /\ rx.pc = "recv"
  /\ \E r \in RecvAnswers(rx.asked) :
       LET x == receiveRound(World, rx.rs, rx.min, r)
       IN  /\ r.err = EWOULDBLOCK => rx.blocks < MaxTries
           /\ r.status = 0 => rx.zeros < MaxTries
           /\ rx' = [rx EXCEPT
                       !.pc = IF x.pc = "loop" THEN "test" ELSE "done",
                       !.rs = x.rs,
                       !.ret = x.ret,
                       !.out = IF x.pc = "loop" THEN @ ELSE receiveOut(rx.kind, x.rs),
                       !.blocks = IF r.err = EWOULDBLOCK THEN @ + 1 ELSE @,
                       !.zeros = IF r.status = 0 THEN @ + 1 ELSE @,
                       !.reads = IF r.status # SOCKET_ERROR THEN @ + 1 ELSE @,
                       !.last = IF r.status # SOCKET_ERROR THEN "bytes" ELSE r.err]
           /\ wire' = SubSeq(wire, Len(r.bytes) + 1, Len(wire))
  /\ UNCHANGED <<target, sd, sockaddr, win_usage_count, osOpen, osListening,
                 osConnected, teardown, poisoned, pc, reg, createFailed, tx>>

NextIO ==
  \/ IoSend
  \/ IoSendString
  \/ IoClose
  \/ ReceiveCall
  \/ ReceiveStringCall
  \/ ReceiveAllCall
  \/ ReceiveTest
  \/ ReceiveRecv

SpecIO == InitIO /\ [][NextIO]_vars

(***************************************************************************)
(* Threads.  Each Connection is used by one thread of its own, which calls *)
(* create() and close() on it (lines 86-127).  The calls take their steps  *)
(* one at a time, interleaved with the other threads' steps.  The counter  *)
(* is a plain static int: win_usage_count++ and win_usage_count-- are a    *)
(* load and a store, and the test of line 588 reads it again.              *)
(* pc[c] is <<operation, position>> or <<"idle">>.                         *)
(***************************************************************************)
Idle == <<"idle">>
ConcLocals == <<sockaddr, osListening, osConnected, poisoned, ioVars>>

\* after close() inside create(), or after osCleanup() on POSIX
AfterCleanup(op) == IF op = "create" THEN <<"create", "osInit">> ELSE Idle

\* close(), lines 88-96, called directly or from create(), line 107
ThreadClose(c, op) ==
  /\ sd[c] # INVALID_SOCKET
  /\ osOpen' = IF sd[c] # SOCKET_ERROR THEN osOpen \ {sd[c]} ELSE osOpen
  /\ sd' = [sd EXCEPT ![c] = INVALID_SOCKET]
  /\ pc' = [pc EXCEPT ![c] = IF target = "WINDOWS" THEN <<op, "cleanup_load">>
                                                   ELSE AfterCleanup(op)]
  /\ UNCHANGED <<win_usage_count, reg, teardown, createFailed>>

\* create(), lines 105-110: close() when the handle is valid, then osInit()
CreateBegin(c) ==
  /\ pc[c] = Idle
  /\ \/ ThreadClose(c, "create")
     \/ /\ sd[c] = INVALID_SOCKET
        /\ pc' = [pc EXCEPT ![c] = <<"create", "osInit">>]
        /\ UNCHANGED <<sd, osOpen, win_usage_count, reg, teardown, createFailed>>
  /\ UNCHANGED <<target, ConcLocals>>

\* close(), line 88: nothing happens on an invalid handle
CloseBegin(c) ==
  /\ pc[c] = Idle
  /\ ThreadClose(c, "close")
  /\ UNCHANGED <<target, ConcLocals>>

\* osCleanup(), line 587: win_usage_count-- loads ...
CleanupLoad(c) ==
  /\ pc[c] \in {<<"create", "cleanup_load">>, <<"close", "cleanup_load">>}
  /\ reg' = [reg EXCEPT ![c] = win_usage_count]
  /\ pc' = [pc EXCEPT ![c] = <<pc[c][1], "cleanup_store">>]
  /\ UNCHANGED <<target, sd, osOpen, win_usage_count, teardown, createFailed, ConcLocals>>

\* ... and stores
CleanupStore(c) ==
  /\ pc[c] \in {<<"create", "cleanup_store">>, <<"close", "cleanup_store">>}
  /\ reg[c] - 1 \in (0 - 1)..MaxCount
  /\ win_usage_count' = reg[c] - 1
  /\ pc' = [pc EXCEPT ![c] = <<pc[c][1], "cleanup_test">>]
  /\ UNCHANGED <<target, sd, osOpen, reg, teardown, createFailed, ConcLocals>>

\* osCleanup(), lines 588-591
CleanupTest(c) ==
  /\ pc[c] \in {<<"create", "cleanup_test">>, <<"close", "cleanup_test">>}
  /\ teardown' = (win_usage_count = 0)
  /\ pc' = [pc EXCEPT ![c] = AfterCleanup(pc[c][1])]
  /\ UNCHANGED <<target, sd, osOpen, win_usage_count, reg, createFailed, ConcLocals>>

\* osInit(): on POSIX it returns true; on Windows win_usage_count++ loads ...
InitLoad(c) ==
  /\ pc[c] = <<"create", "osInit">>
  /\ IF target = "WINDOWS"
       THEN /\ reg' = [reg EXCEPT ![c] = win_usage_count]
            /\ pc' = [pc EXCEPT ![c] = <<"create", "init_store">>]
       ELSE /\ pc' = [pc EXCEPT ![c] = <<"create", "socket">>]
            /\ UNCHANGED reg
  /\ UNCHANGED <<target, sd, osOpen, win_usage_count, teardown, createFailed, ConcLocals>>

\* ... and stores; then WSAStartup and the version check, lines 569-582
InitStore(c) ==
  /\ pc[c] = <<"create", "init_store">>
  /\ reg[c] + 1 \in (0 - 1)..MaxCount
  /\ win_usage_count' = reg[c] + 1
  /\ \E wsa \in WsaOutcomes :
       /\ pc' = [pc EXCEPT ![c] = IF wsa = "ok" THEN <<"create", "socket">> ELSE Idle]
       /\ createFailed' = (createFailed \/ wsa # "ok")
  /\ UNCHANGED <<target, sd, osOpen, reg, teardown, ConcLocals>>

\* create(), lines 115-126
ThreadSocket(c) ==
  /\ pc[c] = <<"create", "socket">>
  /\ \E sockOk \in BOOLEAN :
       LET fd == IF sockOk /\ FreeFds(World) # {} THEN NewFd(World) ELSE INVALID_SOCKET
       IN  /\ sd' = [sd EXCEPT ![c] = fd]
           /\ osOpen' = IF fd # INVALID_SOCKET THEN osOpen \cup {fd} ELSE osOpen
           /\ createFailed' = (createFailed \/ fd = INVALID_SOCKET)
  /\ pc' = [pc EXCEPT ![c] = Idle]
  /\ UNCHANGED <<target, win_usage_count, reg, teardown, ConcLocals>>

NextConc ==
  \E c \in Conns :
    \/ CreateBegin(c)
    \/ CloseBegin(c)
    \/ CleanupLoad(c)
    \/ CleanupStore(c)
    \/ CleanupTest(c)
    \/ InitLoad(c)
    \/ InitStore(c)
    \/ ThreadSocket(c)

SpecConc == Init /\ [][NextConc]_vars

\* C1: when every thread is between calls and no create() has failed, the
\* usage counter of the Windows build equals the number of Connections that
\* hold a valid handle
C1_NoLostUpdate ==
  (target = "WINDOWS" /\ ~createFailed /\ \A c \in Conns : pc[c] = Idle)
    => win_usage_count = Cardinality({c \in Conns : sd[c] # INVALID_SOCKET})

(***************************************************************************)
(* Properties of the lifecycle, checked under Spec.                        *)
(***************************************************************************)
Live == {c \in Conns : sd[c] # INVALID_SOCKET}

\* the results of send and of receive on c, as the lifecycle issues them
IoResults(c) ==
  SendResultsOf(c, LifeData) \cup ReceiveResultsOf(c, Len(LifeData), Len(LifeData))

\* the worlds a set of results leaves
Worlds(S) == {r.w : r \in S}

\* the worlds left by every operation on d that is neither create nor
\* reconnect nor accept
PlainWorlds(d) ==
  Worlds(CloseResults(d)) \cup Worlds(BindResults(d)) \cup Worlds(ListenResults(d))
    \cup Worlds(ConnectResults(d)) \cup Worlds(IoResults(d))
    \cup Worlds(SendtoResultsOf(d, LifeData)) \cup Worlds(BroadcastResultsOf(d, LifeData))
    \cup Worlds(RecvfromResults(d)) \cup Worlds(BroadcastReceiveResults(d))

\* C2 as stated: in every reachable state, whenever create() on a Connection
\* succeeds, a close() right after it leaves the handle invalid and the usage
\* counter at the value it had before the create()
C2_CreateCloseRestoresCounter ==
  \A c \in Conns : \A r \in CreateResults(c) :
    r.ret => LET k == close(r.w, c)
             IN  k.w.sd[c] = INVALID_SOCKET /\ k.w.cnt = win_usage_count

\* C2 amended: the same, for a Connection whose handle is invalid when
\* create() is called
C2_CreateCloseFromInvalid ==
  \A c \in Conns : \A r \in CreateResults(c) :
    (r.ret /\ ~is_valid(World, c))
      => LET k == close(r.w, c)
         IN  k.ret /\ k.w.sd[c] = INVALID_SOCKET /\ k.w.cnt = win_usage_count

C2_Witness ==
  /\ target = "WINDOWS"
  /\ win_usage_count > 0
  /\ \E c \in Conns : \E r \in CreateResults(c) :
       /\ ~is_valid(World, c) /\ r.ret
       /\ r.w.cnt = win_usage_count + 1
       /\ close(r.w, c).w.cnt = win_usage_count

\* C3: the operation that ran last called WSACleanup only if it left no
\* Connection with a valid handle
C3_TeardownOnlyWhenNoneLive == teardown => Live = {}

\* C4: in the Windows build the usage counter equals the number of Connections
\* that hold a valid handle
C4_CounterEqualsLive ==
  target = "WINDOWS" => win_usage_count = Cardinality(Live)

\* send on a valid handle reported a failed poll (0, and ::send never called)
\* or an OS error
SendFailed(r) == r.ret = SOCKET_ERROR \/ (r.ret = 0 /\ "send" \notin r.w.calls)

\* C5, first part (kept by the amendment): a send that fails on a valid handle
\* leaves the handle invalid, and on an invalid handle send and receive return 0
\* without an OS call
C5_PoisonedIsInert ==
  \A c \in Conns :
    /\ is_valid(World, c)
         => \A r \in SendResultsOf(c, LifeData) :
              SendFailed(r) => ~is_valid(r.w, c)
    /\ c \in poisoned
         => /\ ~is_valid(World, c)
            /\ \A r \in IoResults(c) : r.ret = 0 /\ r.w.calls = {}

\* C5 as stated: a poisoned Connection keeps its invalid handle through every
\* operation but its own reconnect() and create()
C5_StaysInvalidUntilReconnect ==
  /\ C5_PoisonedIsInert
  /\ \A c \in poisoned :
       /\ \A w \in PlainWorlds(c) \cup Worlds(AcceptResults(c)) : ~is_valid(w, c)
       /\ \A d \in Conns \ {c} :
            \A w \in PlainWorlds(d) \cup Worlds(AcceptResults(d))
                       \cup Worlds(CreateResults(d)) \cup Worlds(ReconnectResults(d)) :
              ~is_valid(w, c)

\* C5 amended: ... through every operation but its own reconnect() and create()
\* and another Connection's accept() that names it as the target
C5_StaysInvalidUntilRevived ==
  /\ C5_PoisonedIsInert
  /\ \A c \in poisoned :
       /\ \A w \in PlainWorlds(c) \cup Worlds(AcceptResults(c)) : ~is_valid(w, c)
       /\ \A d \in Conns \ {c} :
            \A w \in PlainWorlds(d) \cup Worlds(CreateResults(d))
                       \cup Worlds(ReconnectResults(d))
                       \cup UNION {Worlds(AcceptInto(d, n)) : n \in Conns \ {c, d}} :
              ~is_valid(w, c)

C5_Witness ==
  \E c \in poisoned :
    /\ osOpen \ Held(World) # {}
    /\ \E r \in SendResultsOf(c, LifeData) : r.ret = 0
    /\ \E d \in Conns \ {c} : \E r \in AcceptInto(d, c) : is_valid(r.w, c)

\* C6: reconnect() on a valid handle returns true and leaves the world as it
\* was: same descriptor, counter and peer address, no OS call, no log line
C6_ReconnectValidIsNoOp ==
  \A c \in Conns :
    is_valid(World, c)
      => \A r \in ReconnectResults(c) : r.ret = TRUE /\ r.w = World

C6_Witness ==
  \E c \in Conns :
    /\ is_valid(World, c) /\ sd[c] \in osConnected
    /\ sockaddr[c].addr = PeerAddr
    /\ \E r \in ReconnectResults(c) : r.ret = TRUE /\ r.w.sd[c] = sd[c]

(***************************************************************************)
(* Properties of send and receive, checked under SpecIO.                   *)
(***************************************************************************)
\* C7: a send that reached ::send returns a status other than SOCKET_ERROR only
\* when the OS has taken every byte of the buffer, and it never returns because
\* ::send answered would-block
C7_SendHandsOverAll ==
  (tx.pc = "done" /\ tx.polled)
    => /\ tx.ret # SOCKET_ERROR => tx.accepted = tx.data
       /\ ~(tx.ret = SOCKET_ERROR /\ tx.err = EWOULDBLOCK)

\* C8: receive asks the OS for bytes only while the accumulated size is below
\* both minpacketsize and the capacity (with minpacketsize 0: only until one
\* read has not answered would-block); after a would-block answer it is back in
\* the loop; and a count it returns is the accumulated size, which has reached
\* minpacketsize or the capacity - with minpacketsize 0 and room in the buffer,
\* after exactly one read that did not answer would-block
C8_ReceiveReturnsAtThreshold ==
  /\ rx.pc = "recv"
       => /\ rx.rs.receivedsize < rx.cap
          /\ rx.rs.receivedsize < rx.min \/ (rx.min = 0 /\ rx.reads = 0)
  /\ rx.last = EWOULDBLOCK => rx.pc \in {"test", "recv"}
  /\ (rx.pc = "done" /\ rx.ret >= 0)
       => /\ rx.ret = rx.rs.receivedsize
          /\ rx.ret >= rx.min \/ rx.ret = rx.cap
          /\ (rx.min = 0 /\ rx.cap > 0) => rx.reads = 1

C8_Witness ==
  /\ rx.pc = "done" /\ rx.kind = "raw"
  /\ rx.min = 2 /\ rx.ret = 2
  /\ rx.blocks >= 1 /\ rx.reads = 2

\* C9: the accumulated size never exceeds the capacity, every ::recv is asked
\* for at least one byte and at most the capacity less the accumulated size,
\* with minpacketsize >= capacity no ::recv follows once the accumulated size
\* is the capacity, and a count returned is at most the capacity
C9_WithinCapacity ==
  /\ rx.rs.receivedsize <= rx.cap
  /\ rx.pc = "recv" => (rx.asked >= 1 /\ rx.asked <= rx.cap - rx.rs.receivedsize)
  /\ (rx.min >= rx.cap /\ rx.rs.receivedsize = rx.cap) => rx.pc # "recv"
  /\ (rx.pc = "done" /\ rx.ret >= 0) => rx.ret <= rx.cap

C9_Witness ==
  /\ rx.pc = "done" /\ rx.kind = "raw"
  /\ rx.min > rx.cap /\ rx.cap >= 1
  /\ rx.ret = rx.cap /\ rx.reads >= 1

\* both calls have returned without an error, and receive was called with
\* minpacketsize the length of the buffer sent (and a capacity of at least that)
RoundTripDone ==
  /\ tx.pc = "done" /\ tx.polled /\ tx.ret # SOCKET_ERROR
  /\ rx.pc = "done" /\ rx.ret >= 0
  /\ rx.min = Len(tx.data) /\ rx.cap >= rx.min

\* what the receiver holds: the first ret bytes of its buffer, or its string
Received == IF rx.kind = "raw" THEN Take(rx.out, rx.ret) ELSE rx.out

\* C10: after a round trip the receiver's count is the length of the buffer
\* sent, and what it holds is the buffer sent, byte for byte - on the raw
\* buffer and on the string overloads alike
C10_RoundTrip ==
  RoundTripDone => (rx.ret = Len(tx.data) /\ Received = tx.data)

(***************************************************************************)
(* Properties of the peer address, checked under Spec.                     *)
(***************************************************************************)
\* the worlds left by the operations on c that have no business with
\* _sockaddr: create, close, listen, reconnect, send, receive, sendto, recvfrom
AddressReaders(c) ==
  Worlds(CreateResults(c)) \cup Worlds(CloseResults(c)) \cup Worlds(ListenResults(c))
    \cup Worlds(ReconnectResults(c)) \cup Worlds(IoResults(c))
    \cup Worlds(SendtoResultsOf(c, LifeData)) \cup Worlds(RecvfromResults(c))

\* C11 as stated: create, close, listen, accept, reconnect, send and receive
\* leave every Connection's peer address as it is, and connect leaves it as its
\* setHostname call alone would
C11_AddressWrittenOnlyBySetters ==
  \A c \in Conns :
    /\ \A w \in AddressReaders(c) \cup Worlds(AcceptResults(c)) : w.addr = sockaddr
    /\ is_valid(World, c)
         => \A host \in Hosts, port \in Ports, dnsUp \in BOOLEAN, osOk \in BOOLEAN :
              connect(World, c, host, port, dnsUp, osOk).w.addr
                = setHostname(World, c, host, dnsUp).w.addr

\* C11 amended: create, close, listen, reconnect, send, receive, sendto and
\* recvfrom leave every peer address as it is; accept changes none but the
\* listening Connection's own, and that only when it succeeds; connect changes
\* none but its own, on a valid handle, where it leaves the family and the
\* port it was given
C11_AddressWriters ==
  \A c \in Conns :
    /\ \A w \in AddressReaders(c) : w.addr = sockaddr
    /\ \A r \in AcceptResults(c) :
         /\ \A d \in Conns \ {c} : r.w.addr[d] = sockaddr[d]
         /\ r.w.addr[c] # sockaddr[c] => r.ret
    /\ \A host \in Hosts, port \in Ports, dnsUp \in BOOLEAN, osOk \in BOOLEAN :
         LET r == connect(World, c, host, port, dnsUp, osOk)
         IN  /\ \A d \in Conns \ {c} : r.w.addr[d] = sockaddr[d]
             /\ IF is_valid(World, c)
                  THEN r.w.addr[c].family = AF_INET /\ r.w.addr[c].port = port
                  ELSE r.w.addr[c] = sockaddr[c]

C11_Witness ==
  \E c \in Conns :
    /\ sd[c] \in osListening
    /\ sockaddr[c] = [family |-> AF_INET, port |-> "3875", addr |-> INADDR_ANY]
    /\ \E r \in AcceptResults(c) : r.ret /\ r.w.addr[c].addr = PeerAddr
    /\ \A r \in ReconnectResults(c) : r.w.addr = sockaddr

\* the ports a caller may name: those the peer serves, and one more
CallerPorts == Ports \cup {"3876"}

\* C12: when the resolver does not know the host, setHostname returns false and
\* leaves the peer address as it was, and so does connect(host, port): family,
\* port and address are those configured before the call
C12_ResolutionFailureKeepsAddress ==
  \A c \in Conns, host \in Hosts, dnsUp \in BOOLEAN :
    LET h == setHostname(World, c, host, dnsUp)
    IN  ~h.ret
          => /\ h.w.addr = sockaddr
             /\ \A port \in CallerPorts, osOk \in BOOLEAN :
                  LET r == connect(World, c, host, port, dnsUp, osOk)
                  IN  ~r.ret /\ r.w.addr = sockaddr

(***************************************************************************)
(* Properties of close, checked under Spec.                                *)
(***************************************************************************)
\* C13: close() on an invalid handle returns false and changes nothing, with
\* no OS call; on a valid handle it closes the descriptor, sets the handle
\* invalid and takes one off the usage counter (Windows build); and a second
\* close() right after the first changes nothing
C13_CloseIdempotent ==
  \A c \in Conns :
    LET k1 == close(World, c)
        k2 == close(k1.w, c)
    IN  /\ ~is_valid(World, c) => (~k1.ret /\ k1.w = World)
        /\ is_valid(World, c)
             => /\ k1.ret
                /\ k1.w.sd = [sd EXCEPT ![c] = INVALID_SOCKET]
                /\ k1.w.open = osOpen \ {sd[c]}
                /\ k1.w.cnt = IF target = "WINDOWS" THEN win_usage_count - 1
                                                    ELSE win_usage_count
        /\ ~k2.ret /\ k2.w = k1.w

C13_Witness ==
  /\ target = "WINDOWS"
  /\ poisoned # {}
  /\ \E c \in Conns :
       /\ sd[c] \in osOpen
       /\ win_usage_count >= 1
       /\ close(World, c).w.cnt = win_usage_count - 1
       /\ close(close(World, c).w, c).w.cnt = win_usage_count - 1

(***************************************************************************)
(* Properties of the log, checked under Spec.                              *)
(***************************************************************************)
SetHostnameResults(c) ==
  {setHostname(World, c, host, dnsUp) : host \in Hosts, dnsUp \in BOOLEAN}

\* the results of the operations on c that return bool, and of those that
\* return a status
BoolResults(c) ==
  CreateResults(c) \cup BindResults(c) \cup ListenResults(c) \cup AcceptResults(c)
    \cup ConnectResults(c) \cup ReconnectResults(c) \cup SetHostnameResults(c)

StatusWorlds(c, failed) ==
  {r.w : r \in {x \in SendResultsOf(c, LifeData) : (x.ret = SOCKET_ERROR) = failed}}
    \cup {r.w : r \in {x \in SendtoResultsOf(c, LifeData) : (x.ret = SOCKET_ERROR) = failed}}
    \cup {r.w : r \in {x \in ReceiveResultsOf(c, Len(LifeData), Len(LifeData)) :
                         (x.ret = SOCKET_ERROR) = failed}}

\* C14: a call that reached the OS and returns false or SOCKET_ERROR has
\* written exactly one line to the log, and a call that returns a count has
\* written none, whether or not it retried on would-block
C14_OneLineOnFailure ==
  \A c \in Conns :
    /\ \A r \in BoolResults(c) : (~r.ret /\ r.w.calls # {}) => r.w.logs = 1
    /\ \A w \in StatusWorlds(c, TRUE) : w.logs = 1
    /\ \A w \in StatusWorlds(c, FALSE) : w.logs = 0

(***************************************************************************)
(* Properties of reconnect and of the handle, checked under Spec.          *)
(***************************************************************************)
\* C15: when reconnect() returns true, the Connection's handle is a descriptor
\* on which ::connect has succeeded (or which ::accept returned)
C15_ReconnectMeansConnected ==
  \A c \in Conns : \A r \in ReconnectResults(c) :
    r.ret => r.w.sd[c] \in r.w.connected

(***************************************************************************)
(* The round trip with its calls run to the end.  The receiver's thread    *)
(* keeps running: the loop test and the round of the loop are taken        *)
(* whenever the call stands at them, and the sender's thread finishes its  *)
(* send and closes.  The answer counters saturate at their bounds, so a    *)
(* call that keeps reading comes back to a state it has been in.           *)
(***************************************************************************)
Capped(n, bound) == IF n < bound THEN n + 1 ELSE bound

\* one round of the loop, lines 335-360, as in ReceiveRecv, on every answer of
\* ::recv however many came before
ReceiveRecvAgain ==
  /\ rx.pc = "recv"
  /\ \E r \in RecvAnswers(rx.asked) :
       LET x == receiveRound(World, rx.rs, rx.min, r)
       IN  /\ rx' = [rx EXCEPT
                       !.pc = IF x.pc = "loop" THEN "test" ELSE "done",
                       !.rs = x.rs,
                       !.ret = x.ret,
                       !.out = IF x.pc = "loop" THEN @ ELSE receiveOut(rx.kind, x.rs),
                       !.blocks = IF r.err = EWOULDBLOCK THEN Capped(@, MaxTries) ELSE @,
                       !.zeros = IF r.status = 0 THEN Capped(@, MaxTries) ELSE @,
                       !.reads = IF r.status # SOCKET_ERROR
                                   THEN Capped(@, MaxLen + MaxTries) ELSE @,
                       !.last = IF r.status # SOCKET_ERROR THEN "bytes" ELSE r.err]
           /\ wire' = SubSeq(wire, Len(r.bytes) + 1, Len(wire))
  /\ UNCHANGED <<target, sd, sockaddr, win_usage_count, osOpen, osListening,
                 osConnected, teardown, poisoned, pc, reg, createFailed, tx>>

NextIOFair ==
  \/ IoSend
  \/ IoSendString
  \/ IoClose
  \/ ReceiveCall
  \/ ReceiveStringCall
  \/ ReceiveAllCall
  \/ ReceiveTest
  \/ ReceiveRecvAgain

SpecIOFair ==
  /\ InitIO
  /\ [][NextIOFair]_vars
  /\ WF_vars(IoSend \/ IoSendString)
  /\ WF_vars(IoClose)
  /\ WF_vars(ReceiveTest)
  /\ WF_vars(ReceiveRecvAgain)

\* C16: once ::recv has answered with no bytes and no error (the peer closed
\* the stream), the receive call in progress returns to its caller
C16_ReceiveReturnsAtEndOfStream ==
  (rx.pc # "done" /\ rx.zeros >= 1) ~> (rx.pc = "done")

(***************************************************************************)
(* Properties of the handle and of the OS's descriptors, checked under     *)
(* Spec.                                                                   *)
(***************************************************************************)
\* every Connection whose handle is valid now has a valid handle in each of
\* the worlds W
KeepsHandles(W) ==
  \A w \in W : \A d \in Conns : is_valid(World, d) => is_valid(w, d)

\* the worlds left by the operations on c other than close, create (which
\* closes) and send
NonClosingWorlds(c) ==
  Worlds(ReceiveResultsOf(c, Len(LifeData), Len(LifeData)))
    \cup Worlds(SendtoResultsOf(c, LifeData)) \cup Worlds(BroadcastResultsOf(c, LifeData))
    \cup Worlds(RecvfromResults(c)) \cup Worlds(BroadcastReceiveResults(c))
    \cup Worlds(BindResults(c)) \cup Worlds(ListenResults(c))
    \cup Worlds(ConnectResults(c)) \cup Worlds(ReconnectResults(c))
    \cup Worlds(SetHostnameResults(c))

\* C17: receive, sendto, recvfrom, bind, listen, accept, connect and reconnect
\* leave every valid handle valid, and after a receive that failed on a valid
\* handle reconnect() returns true without a call to the OS
C17_OnlyCloseAndSendInvalidate ==
  \A c \in Conns :
    /\ KeepsHandles(NonClosingWorlds(c))
    /\ KeepsHandles(Worlds(AcceptResults(c)))
    /\ \A r \in ReceiveResultsOf(c, Len(LifeData), Len(LifeData)) :
         (is_valid(World, c) /\ r.ret = SOCKET_ERROR) =>
           \A k \in {reconnect(r.w, c, wsa, TRUE, TRUE) : wsa \in WsaOutcomes} :
             k.ret /\ k.w.sd = r.w.sd /\ k.w.calls = r.w.calls

\* the world after close() on each Connection of S, as their destructors
\* leave it (lines 43-46)
RECURSIVE CloseAll(_, _)
CloseAll(w, S) ==
  IF S = {} THEN w
  ELSE LET c == CHOOSE x \in S : TRUE
       IN  CloseAll(close(w, c).w, S \ {c})

\* C18: when every Connection has been closed or destroyed, every descriptor
\* that create(), reconnect() or accept() obtained from the OS has been
\* released
C18_CloseReleasesEverySocket == CloseAll(World, Conns).open = {}

\* C19: the usage counter of the OS networking subsystem is never negative
C19_CounterNeverNegative == win_usage_count >= 0

(***************************************************************************)
(* Properties of sendto, checked under Spec.                               *)
(***************************************************************************)
\* the answers of ::sendto to the rounds of one sendto call on descriptor f
\* that passes data: up to one answer for each byte
SendtoRounds(f, data) ==
  UNION {[1..n -> SendtoResults(f, data)] : n \in 1..Len(data)}

\* C20: sendto(data, size, true) returns after at most size calls of
\* ::sendto, and when it returns a count the OS has been handed the bytes of
\* data, each once and in order
C20_SendtoHandsOverOnce ==
  \A c \in Conns : \A data \in Datas \ {<<>>} :
    \A results \in SendtoRounds(sd[c], data) :
      LET r == sendto(World, c, Len(data), TRUE, results)
      IN  /\ Len(results) = Len(data) => r.done
          /\ (r.done /\ r.ret > 0) => r.w.sent = data
====
